---- MODULE Spec2Model ----
(***************************************************************************)
(* Model of the Express server of yenisei-demo-app: the middleware chain   *)
(* of server/index.ts (multipart upload middleware, body parsers, error    *)
(* handler) and the routes of server/routes.ts (auth login, add to         *)
(* description, requireAdmin, general proxy), together with the upstream   *)
(* service https://qdr.equiron.com as an opaque environment that answers   *)
(* or fails each fetch.                                                    *)
(*                                                                         *)
(* Strings that the code takes apart or concatenates are sequences of      *)
(* tokens; header values are atoms.  One request is in flight at a time.   *)
(***************************************************************************)
EXTENDS Integers, Sequences, FiniteSets, TLC

VARIABLES pc, req, body, handler, headers, fetches, upResp, res, users, tasks, log

\* two add-to-description requests served at once: the task the upstream
\* stores, and for each request its position, its body, the task it works
\* from and the status it was answered with
VARIABLES upstreamTask, callPc, callBody, callTask, callStatus

raceVars == <<upstreamTask, callPc, callBody, callTask, callStatus>>

\* the AuthProvider of the client: its React state, the localStorage of the
\* browser, and the login and register calls that have not settled yet
VARIABLES isAuthenticated, user, token, loading, localStorage, authCalls

authVars == <<isAuthenticated, user, token, loading, localStorage, authCalls>>

vars == <<pc, req, body, handler, headers, fetches, upResp, res, users, tasks, log,
          raceVars, authVars>>

-----------------------------------------------------------------------------
(* Bounds of the enumerated inputs *)

\* most key=value pairs in a form-encoded request body
MaxPairs == 2

-----------------------------------------------------------------------------
(* Header values *)

Absent == "<absent>"

CtJson == "application/json"
CtForm == "application/x-www-form-urlencoded"
CtMultipart == "multipart/form-data; boundary=x"
CtText == "text/plain"

\* String.prototype.includes on the header values of the model
Includes(value, needle) ==
    \/ value = needle
    \/ value = CtMultipart /\ needle = "multipart/form-data"

\* String.prototype.startsWith on the authorization values of the model
StartsWith(value, prefix) ==
    prefix = "Bearer " /\ value \in {"Bearer user-token", "Bearer admin-token"}

\* JS truthiness of a header read from req.headers
HeaderTruthy(value) == value # Absent /\ value # ""

-----------------------------------------------------------------------------
(* JS values: strings are token sequences, objects are member lists *)

Undefined == [t |-> "undef", s |-> <<>>, m |-> <<>>, a |-> <<>>]
JStr(s) == [t |-> "str", s |-> s, m |-> <<>>, a |-> <<>>]
JObj(m) == [t |-> "obj", s |-> <<>>, m |-> m, a |-> <<>>]
JArr(a) == [t |-> "arr", s |-> <<>>, m |-> <<>>, a |-> a]
JNull == [t |-> "null", s |-> <<>>, m |-> <<>>, a |-> <<>>]

Truthy(v) == v.t \in {"obj", "arr"} \/ (v.t = "str" /\ v.s # <<>>)

RECURSIVE Get(_, _)
\* property read obj[key]; a missing key reads as undefined
Get(v, key) ==
    IF v.t # "obj" \/ v.m = <<>> THEN Undefined
    ELSE IF v.m[Len(v.m)][1] = key THEN v.m[Len(v.m)][2]
    ELSE Get(JObj(SubSeq(v.m, 1, Len(v.m) - 1)), key)

RECURSIVE Join(_, _)
\* Array.prototype.join
Join(a, sep) ==
    IF a = <<>> THEN <<>>
    ELSE IF Len(a) = 1 THEN a[1]
    ELSE a[1] \o <<sep>> \o Join(Tail(a), sep)

\* String(value)
String(v) ==
    CASE v.t = "str" -> v.s
      [] v.t = "arr" -> Join(v.a, ",")
      [] v.t = "obj" -> <<"[object Object]">>
      [] v.t = "null" -> <<"null">>
      [] OTHER -> <<"undefined">>

-----------------------------------------------------------------------------
(* application/x-www-form-urlencoded text: a list of <<key, value>> pairs   *)
(* whose values are percent-encoded token sequences                         *)

\* percent-encoding of one character by URLSearchParams.toString
EncodeToken(c) ==
    CASE c = "," -> "%2C"
      [] c = "[object Object]" -> "%5Bobject+Object%5D"
      [] OTHER -> c

\* percent-decoding of one token by querystring.parse / URLSearchParams
DecodeToken(c) ==
    CASE c = "%2C" -> ","
      [] c = "%5Bobject+Object%5D" -> "[object Object]"
      [] OTHER -> c

EncodeStr(s) == [i \in 1..Len(s) |-> EncodeToken(s[i])]
DecodeStr(s) == [i \in 1..Len(s) |-> DecodeToken(s[i])]

\* the key/value list a form-encoded text stands for
FormDecode(text) == [i \in 1..Len(text) |-> <<text[i][1], DecodeStr(text[i][2])>>]

\* URLSearchParams.prototype.toString
ParamsToString(params) == [i \in 1..Len(params) |-> <<params[i][1], EncodeStr(params[i][2])>>]

\* keys that JS objects enumerate first, in ascending numeric order
IsIndexKey(k) == k \in {"1", "2"}
KeyNum(k) == IF k = "1" THEN 1 ELSE 2

\* obj[k] = v on the member list of an object, in JS property order
SetProp(m, k, v) ==
    IF \E i \in 1..Len(m) : m[i][1] = k
    THEN [i \in 1..Len(m) |-> IF m[i][1] = k THEN <<k, v>> ELSE m[i]]
    ELSE IF IsIndexKey(k)
    THEN LET pos == Cardinality({i \in 1..Len(m) :
                        IsIndexKey(m[i][1]) /\ KeyNum(m[i][1]) < KeyNum(k)})
         IN SubSeq(m, 1, pos) \o << <<k, v>> >> \o SubSeq(m, pos + 1, Len(m))
    ELSE Append(m, <<k, v>>)

RECURSIVE QsParseInto(_, _)
\* querystring.parse: a repeated key collects its values in an array
QsParseInto(m, pairs) ==
    IF pairs = <<>> THEN m
    ELSE LET k == pairs[1][1]
             v == pairs[1][2]
             old == Get(JObj(m), k)
             new == CASE old.t = "undef" -> JStr(v)
                      [] old.t = "arr" -> JArr(Append(old.a, v))
                      [] OTHER -> JArr(<<old.s, v>>)
         IN QsParseInto(SetProp(m, k, new), Tail(pairs))

QsParse(text) == JObj(QsParseInto(<<>>, FormDecode(text)))

\* for (const [key, value] of Object.entries(obj)) params.append(key, String(value))
EntriesToParams(obj) == [i \in 1..Len(obj.m) |-> <<obj.m[i][1], String(obj.m[i][2])>>]

-----------------------------------------------------------------------------
(* Request and response bodies as they travel *)

NoBody == [kind |-> "none", ok |-> TRUE, json |-> Undefined, form |-> <<>>, text |-> <<>>]
JsonText(v) == [kind |-> "json", ok |-> TRUE, json |-> v, form |-> <<>>, text |-> <<>>]
BadJsonText == [kind |-> "json", ok |-> FALSE, json |-> Undefined, form |-> <<>>, text |-> <<>>]
FormText(f) == [kind |-> "form", ok |-> TRUE, json |-> Undefined, form |-> f, text |-> <<>>]
PlainText(s) == [kind |-> "text", ok |-> TRUE, json |-> Undefined, form |-> <<>>, text |-> s]
RawBytes == [kind |-> "bytes", ok |-> TRUE, json |-> Undefined, form |-> <<>>, text |-> <<>>]

RECURSIVE JsonParseMembers(_, _)
\* JSON.parse of the members of an object text: a repeated key keeps its
\* last value, members come out in JS property order
JsonParseMembers(m, members) ==
    IF members = <<>> THEN m
    ELSE LET k == members[1][1]
             v == members[1][2]
             pv == IF v.t = "obj" THEN JObj(JsonParseMembers(<<>>, v.m)) ELSE v
         IN JsonParseMembers(SetProp(m, k, pv), Tail(members))

\* JSON.parse of a well-formed object text
JSONParse(text) == JObj(JsonParseMembers(<<>>, text.json.m))

RECURSIVE DropUndefined(_)
\* JSON.stringify leaves out the members whose value is undefined
DropUndefined(m) ==
    IF m = <<>> THEN <<>>
    ELSE LET v == m[1][2]
             sv == IF v.t = "obj" THEN JObj(DropUndefined(v.m)) ELSE v
         IN IF v.t = "undef" THEN DropUndefined(Tail(m))
            ELSE << <<m[1][1], sv>> >> \o DropUndefined(Tail(m))

\* JSON.stringify of an object: its members in property order
JSONStringify(v) == JsonText(JObj(DropUndefined(v.m)))

-----------------------------------------------------------------------------
(* Incoming requests *)

Host == "https://qdr.equiron.com"

Methods == {"GET", "HEAD", "POST", "DELETE"}

QueryTokens == {"?next=1", "?full=1"}

\* req.originalUrl as tokens: path segments, then the query string if any
Urls == { <<"/api", "/auth", "/login">>,
          <<"/api", "/auth", "/login", "?next=1">>,
          <<"/api", "/tasks", "/7", "/add-to-description">>,
          <<"/api", "/tasks", "/7">>,
          <<"/api", "/users">>,
          <<"/api", "/api", "/tasks", "?full=1">> }

\* req.path: the URL without its query string
PathOf(url) == SelectSeq(url, LAMBDA tok : tok \notin QueryTokens)

AuthValues == {Absent, "Basic dXNlcg==", "Bearer user-token", "Bearer admin-token"}
\* accept, user-agent and cookie as a browser sends them, or none of them
ClientHeaders == { <<Absent, Absent, Absent>>, <<"text/html", "Mozilla/5.0", "sid=abc">> }

FormKeys == {"username", "1"}
FormValues == { <<"x">> }

RECURSIVE FormTexts(_)
\* the form-encoded texts of at most n pairs
FormTexts(n) ==
    IF n = 0 THEN { <<>> }
    ELSE FormTexts(n - 1) \cup
         { Append(f, <<k, v>>) : f \in {g \in FormTexts(n - 1) : Len(g) = n - 1},
                                 k \in FormKeys, v \in FormValues }

TaskFull == JObj(<< <<"name", JStr(<<"n">>)>>, <<"description", JStr(<<"d">>)>> >>)
TaskBare == JObj(<< <<"name", JStr(<<"n">>)>> >>)

JsonObjects ==
    { JObj(<<>>),
      JObj(<< <<"name", JStr(<<"t">>)>>, <<"name", JStr(<<"u">>)>> >>),
      JObj(<< <<"username", JStr(<<"u">>)>>, <<"password", JStr(<<"p">>)>> >>),
      JObj(<< <<"additionalText", JStr(<<"A">>)>> >>),
      JObj(<< <<"additionalText", JStr(<<"A">>)>>, <<"fullTask", TaskFull>> >>),
      JObj(<< <<"additionalText", JStr(<<"A">>)>>, <<"fullTask", TaskBare>> >>) }

\* content type and raw body as they arrive together
TypedBodies ==
    { <<Absent, NoBody>>, <<"", NoBody>>, <<CtJson, NoBody>>, <<CtJson, BadJsonText>>,
      <<CtMultipart, RawBytes>>, <<CtText, RawBytes>> }
    \cup { <<CtJson, JsonText(v)>> : v \in JsonObjects }
    \cup { <<CtForm, FormText(f)>> : f \in FormTexts(MaxPairs) }

Requests ==
    { [method |-> m, originalUrl |-> u, raw |-> tb[2],
       headers |-> [authorization |-> au, contentType |-> tb[1], accept |-> ch[1],
                    userAgent |-> ch[2], cookie |-> ch[3]]] :
        m \in Methods, u \in Urls, tb \in TypedBodies,
        au \in AuthValues, ch \in ClientHeaders }

NoReq == [method |-> "", originalUrl |-> <<>>, raw |-> NoBody,
          headers |-> [authorization |-> Absent, contentType |-> Absent, accept |-> Absent,
                       userAgent |-> Absent, cookie |-> Absent]]

\* req.headers[key] for the lower-case header names the code reads
ReqHeader(r, key) ==
    CASE key = "authorization" -> r.headers.authorization
      [] key = "content-type" -> r.headers.contentType
      [] key = "accept" -> r.headers.accept
      [] key = "user-agent" -> r.headers.userAgent
      [] key = "cookie" -> r.headers.cookie
      [] OTHER -> Absent

-----------------------------------------------------------------------------
(* Upstream responses *)

NoCT == [media |-> "none", charset |-> "none"]
MediaType(m) == [media |-> m, charset |-> "none"]

Statuses == {200, 201, 404, 500}

WrappedTask == JObj(<< <<"task", TaskBare>> >>)

\* content type and body as the upstream sends them together
UpstreamBodies ==
    { <<MediaType("application/json"), JsonText(TaskFull)>>,
      <<MediaType("application/json"), JsonText(WrappedTask)>>,
      <<MediaType("application/json"), NoBody>>,
      <<MediaType("text/plain"), PlainText(<<"oops">>)>>,
      <<MediaType("image/png"), RawBytes>>,
      <<NoCT, NoBody>> }

UpstreamHeaderNames == {"content-length", "x-request-id"}

Responses ==
    { [failed |-> FALSE, status |-> st, ct |-> cb[1], body |-> cb[2], used |-> FALSE,
       names |-> UpstreamHeaderNames] : st \in Statuses, cb \in UpstreamBodies }

\* fetch rejected: no response at all
FetchFailed == [failed |-> TRUE, status |-> 0, ct |-> NoCT, body |-> NoBody, used |-> FALSE,
                names |-> {}]

NoResp == [failed |-> FALSE, status |-> 0, ct |-> NoCT, body |-> NoBody, used |-> FALSE,
           names |-> {}]

\* a response counts as ok whatever its status
OkAnyStatus(r) == r.status >= 200

\* response.ok
Ok(r) == r.status >= 200 /\ r.status <= 299

\* response.headers.get('content-type')?.includes('application/json')
IsJsonResponse(r) == r.ct.media = "application/json"

\* response.json() and response.text() reject when the body was already read;
\* response.json() also rejects when the body is not a JSON text
JsonRejects(r) == r.used \/ r.body.kind # "json" \/ ~r.body.ok
TextRejects(r) == r.used

-----------------------------------------------------------------------------
(* The Express response object *)

NoRes == [sent |-> FALSE, writes |-> 0, status |-> 200, ct |-> NoCT, body |-> NoBody,
          names |-> {}, onFinish |-> FALSE, capturedJsonResponse |-> Undefined]

\* res.status(code)
ResStatus(r, code) == [r EXCEPT !.status = code]

\* setCharset of res.send for a string body
SetCharset(ct, cs) == [ct EXCEPT !.charset = cs]

\* res.send(text): a string body defaults to text/html and gets charset utf-8
ResSend(r, text) ==
    LET ct == IF r.ct = NoCT THEN MediaType("text/html") ELSE r.ct
    IN [r EXCEPT !.sent = TRUE, !.writes = @ + 1, !.ct = SetCharset(ct, "utf-8"),
                 !.body = text]

\* res.json(data): keeps a Content-Type already set, else application/json
\* the res.json patched by the logging middleware records its argument first
ResJson(r, data) ==
    LET ct == IF r.ct = NoCT THEN MediaType("application/json") ELSE r.ct
        captured == IF r.onFinish THEN data ELSE r.capturedJsonResponse
    IN ResSend([r EXCEPT !.ct = ct, !.capturedJsonResponse = captured], JSONStringify(data))

\* nothing has been passed to log() for the exchange at hand
NoLine == "<no line>"

ErrorObj(key, msg) == JObj(<< <<key, JStr(<<msg>>)>> >>)

-----------------------------------------------------------------------------
(* MemStorage of server/storage.ts *)

\* MemStorage.createUser with the id randomUUID returned
createUser(us, id, insertUser) == us \cup {[id |-> id, user |-> insertUser]}

\* MemStorage.createTask with the id randomUUID returned
createTask(ts, id, insertTask) == ts \cup {[id |-> id, task |-> insertTask]}

\* a general handler that records every proxied request as a task
StorageCallsCreateTask(h) ==
    IF h = "general" THEN << [op |-> "createTask", arg |-> "proxied"] >> ELSE <<>>

\* the calls a handler of routes.ts makes on the imported storage: none
StorageCalls(h) == <<>>

RECURSIVE ApplyStorageCalls(_, _)
ApplyStorageCalls(st, calls) ==
    IF calls = <<>> THEN st
    ELSE LET c == calls[1]
             next == IF c.op = "createUser"
                     THEN <<createUser(st[1], Cardinality(st[1]) + 1, c.arg), st[2]>>
                     ELSE <<st[1], createTask(st[2], Cardinality(st[2]) + 1, c.arg)>>
         IN ApplyStorageCalls(next, Tail(calls))

\* the storage after handler h ran
Storage(h) ==
    /\ users' = ApplyStorageCalls(<<users, tasks>>, StorageCalls(h))[1]
    /\ tasks' = ApplyStorageCalls(<<users, tasks>>, StorageCalls(h))[2]

-----------------------------------------------------------------------------
(* Building the upstream request *)

\* value?.includes(needle) on a header that may be missing
OptIncludes(value, needle) == value # Absent /\ Includes(value, needle)

\* `https://qdr.equiron.com${req.originalUrl.replace(/^\/api/, '')}`
StripApi(url) == IF url # <<>> /\ Head(url) = "/api" THEN Tail(url) ELSE url

\* the target built from req.path, which has neither the mount path nor the query
TargetUrlFromPath(r) == <<Host>> \o Tail(PathOf(r.originalUrl))

TargetUrl(r) == <<Host>> \o StripApi(r.originalUrl)

\* a whitelist that lets the cookie through
SafeHeadersWithCookie == <<"authorization", "content-type", "accept", "user-agent", "cookie">>

SafeHeaders == <<"authorization", "content-type", "accept", "user-agent">>

\* safeHeaders.forEach: copy the headers that are present
CopySafeHeaders(r) ==
    SelectSeq([i \in 1..Len(SafeHeaders) |-> <<SafeHeaders[i], ReqHeader(r, SafeHeaders[i])>>],
              LAMBDA p : p[2] # Absent)

Fetch(method, url, hs, b) == [method |-> method, url |-> url, headers |-> hs, body |-> b]

NotGetHead(r) == r.method # "GET" /\ r.method # "HEAD"

IsMultipart(r) == NotGetHead(r) /\ OptIncludes(r.headers.contentType, "multipart/form-data")

-----------------------------------------------------------------------------
(* Initial state and the middleware of server/index.ts *)

ServerInit ==
    /\ pc = "idle"
    /\ req = NoReq
    /\ body = Undefined
    /\ handler = "none"
    /\ headers = <<>>
    /\ fetches = <<>>
    /\ upResp = NoResp
    /\ res = NoRes
    /\ log = NoLine
    /\ users = {}
    /\ tasks = {}

\* a request arrives
Receive(r) ==
    /\ pc = "idle"
    /\ req' = r
    /\ pc' = "multipart_mw"
    /\ body' = Undefined
    /\ handler' = "none"
    /\ headers' = <<>>
    /\ fetches' = <<>>
    /\ upResp' = NoResp
    /\ res' = NoRes
    /\ UNCHANGED <<users, tasks>>
    /\ UNCHANGED log
    /\ UNCHANGED <<raceVars, authVars>>

\* the multipart middleware without its return: next() runs after the fetch
MultipartMiddlewareFallsThrough ==
    /\ pc = "multipart_mw"
    /\ IF IsMultipart(req)
       THEN /\ handler' = "multipart"
            /\ headers' = CopySafeHeaders(req)
            /\ fetches' = Append(fetches, Fetch(req.method, TargetUrl(req), headers', req.raw))
       ELSE UNCHANGED <<handler, headers, fetches>>
    /\ pc' = "body_parsers"
    /\ UNCHANGED <<req, body, upResp, res, users, tasks>>
    /\ UNCHANGED log
    /\ UNCHANGED <<raceVars, authVars>>

\* app.use("/api", ...) registered before the body parsers
MultipartMiddleware ==
    /\ pc = "multipart_mw"
    /\ IF IsMultipart(req)
       THEN /\ handler' = "multipart"
            /\ headers' = CopySafeHeaders(req)
            /\ fetches' = Append(fetches, Fetch(req.method, TargetUrl(req), headers', req.raw))
            /\ pc' = "wait"
       ELSE /\ pc' = "body_parsers"
            /\ UNCHANGED <<handler, headers, fetches>>
    /\ UNCHANGED <<req, body, upResp, res, users, tasks>>
    /\ UNCHANGED log
    /\ UNCHANGED <<raceVars, authVars>>

\* response handling of the multipart middleware
MultipartThen ==
    /\ pc = "then"
    /\ handler = "multipart"
    /\ LET failure == ResJson(ResStatus(res, 500), ErrorObj("error", "File upload failed"))
           \* response.text() of the error log reads the body first
           resp == [upResp EXCEPT !.used = upResp.status >= 400]
           copied == [res EXCEPT !.status = resp.status,
                                 !.ct = resp.ct,
                                 !.names = resp.names \ {"content-encoding", "transfer-encoding",
                                                         "content-length"}]
       IN /\ res' = IF upResp.failed THEN failure
                    ELSE IF IsJsonResponse(resp)
                    THEN IF JsonRejects(resp)
                         THEN ResJson(ResStatus(copied, 500), ErrorObj("error", "File upload failed"))
                         ELSE ResJson(copied, JSONParse(resp.body))
                    ELSE IF TextRejects(resp)
                         THEN ResJson(ResStatus(copied, 500), ErrorObj("error", "File upload failed"))
                         ELSE ResSend(copied, resp.body)
          /\ upResp' = IF upResp.failed THEN upResp ELSE [resp EXCEPT !.used = TRUE]
    /\ pc' = "responded"
    /\ UNCHANGED <<req, body, handler, headers, fetches, users, tasks>>
    /\ UNCHANGED log
    /\ UNCHANGED <<raceVars, authVars>>

\* express.json() then express.urlencoded({ extended: false })
ParseFails(r) == r.headers.contentType = CtJson /\ r.raw.kind = "json" /\ ~r.raw.ok

ParsedBody(r) ==
    IF r.headers.contentType = CtJson /\ r.raw.kind = "json" THEN JSONParse(r.raw)
    ELSE IF r.headers.contentType = CtForm /\ r.raw.kind = "form" THEN QsParse(r.raw.form)
    ELSE JObj(<<>>)

BodyParsers ==
    /\ pc = "body_parsers"
    /\ IF ParseFails(req)
       THEN pc' = "error_handler" /\ UNCHANGED body
       ELSE pc' = "logger" /\ body' = ParsedBody(req)
    /\ UNCHANGED <<req, handler, headers, fetches, upResp, res, users, tasks>>
    /\ UNCHANGED log
    /\ UNCHANGED <<raceVars, authVars>>

\* the logging middleware: it patches res.json, listens for "finish" and calls next()
Logger ==
    /\ pc = "logger"
    /\ res' = [res EXCEPT !.onFinish = TRUE]
    /\ pc' = "routes"
    /\ UNCHANGED <<req, body, handler, headers, fetches, upResp, users, tasks, log>>
    /\ UNCHANGED <<raceVars, authVars>>

\* app.use((err, _req, res, _next) => ...): a body parser error carries status 400
ErrorHandler ==
    /\ pc = "error_handler"
    /\ handler' = "error"
    /\ res' = ResJson(ResStatus(res, 400), ErrorObj("message", "Unexpected token"))
    /\ pc' = "responded"
    /\ UNCHANGED <<req, body, headers, fetches, upResp, users, tasks>>
    /\ UNCHANGED log
    /\ UNCHANGED <<raceVars, authVars>>

-----------------------------------------------------------------------------
(* The upstream service and the caller *)

\* what add-to-description puts between the old description and the addition
Separator == "\n\nDobavleno:\n"

\* the characters of a string value
RECURSIVE Chars(_)
Chars(toks) == IF toks = <<>> THEN "" ELSE toks[1] \o Chars(Tail(toks))

\* a string as JSON.stringify quotes it, line feeds escaped
Quote(toks) ==
    LET esc(tok) == IF tok = Separator THEN "\\n\\nDobavleno:\\n" ELSE tok
        Esc[i \in 0..Len(toks)] == IF i = 0 THEN "" ELSE Esc[i - 1] \o esc(toks[i])
    IN "\"" \o Esc[Len(toks)] \o "\""

\* the text JSON.stringify produces for a value
RECURSIVE Stringify(_)
Stringify(v) ==
    LET m == DropUndefined(v.m)
        Members[i \in 0..Len(m)] ==
            IF i = 0 THEN ""
            ELSE Members[i - 1] \o (IF i = 1 THEN "" ELSE ",")
                 \o "\"" \o m[i][1] \o "\":" \o Stringify(m[i][2])
        Elements[i \in 0..Len(v.a)] ==
            IF i = 0 THEN ""
            ELSE Elements[i - 1] \o (IF i = 1 THEN "" ELSE ",") \o Stringify(v.a[i])
    IN CASE v.t = "str" -> Quote(v.s)
         [] v.t = "obj" -> "{" \o Members[Len(DropUndefined(v.m))] \o "}"
         [] v.t = "arr" -> "[" \o Elements[Len(v.a)] \o "]"
         [] OTHER -> "null"

\* String.prototype.startsWith on a path
PathStartsWith(path, prefix) ==
    Len(path) >= Len(prefix) /\ SubSeq(path, 1, Len(prefix)) = prefix

\* the milliseconds an exchange may take
Durations == {3}

MaxLine == 80
\* the three characters the source appends after the cut
Ellipsis == "â€¦"

\* the line the "finish" listener of the logging middleware builds
LogLine(r, rs, duration) ==
    LET head == r.method \o " " \o Chars(PathOf(r.originalUrl)) \o " "
                \o ToString(rs.status) \o " in " \o ToString(duration) \o "ms"
        logLine == IF Truthy(rs.capturedJsonResponse)
                   THEN head \o " :: " \o Stringify(rs.capturedJsonResponse)
                   ELSE head
    IN IF Len(logLine) > MaxLine
       THEN SubSeq(logLine, 1, MaxLine - 1) \o Ellipsis
       ELSE logLine

\* the response has been written out: "finish" fires on res
Finish ==
    /\ pc = "responded"
    /\ pc' = "finished"
    /\ IF res.onFinish /\ PathStartsWith(Chars(PathOf(req.originalUrl)), "/api")
       THEN \E duration \in Durations : log' = LogLine(req, res, duration)
       ELSE UNCHANGED log
    /\ UNCHANGED <<req, body, handler, headers, fetches, upResp, res, users, tasks>>
    /\ UNCHANGED <<raceVars, authVars>>

\* the exchange is over
Close ==
    /\ pc = "finished"
    /\ pc' = "idle"
    /\ req' = NoReq
    /\ body' = Undefined
    /\ handler' = "none"
    /\ headers' = <<>>
    /\ fetches' = <<>>
    /\ upResp' = NoResp
    /\ res' = NoRes
    /\ log' = NoLine
    /\ UNCHANGED <<users, tasks>>
    /\ UNCHANGED <<raceVars, authVars>>

UpstreamAnswer(r) ==
    /\ pc = "wait"
    /\ upResp' = r
    /\ pc' = "then"
    /\ UNCHANGED <<req, body, handler, headers, fetches, res, users, tasks>>
    /\ UNCHANGED log
    /\ UNCHANGED <<raceVars, authVars>>

UpstreamFail ==
    /\ pc = "wait"
    /\ upResp' = FetchFailed
    /\ pc' = "then"
    /\ UNCHANGED <<req, body, handler, headers, fetches, res, users, tasks>>
    /\ UNCHANGED log
    /\ UNCHANGED <<raceVars, authVars>>

-----------------------------------------------------------------------------
(* The routes of server/routes.ts *)

LoginPath == <<"/api", "/auth", "/login">>

IsLogin(r) == r.method = "POST" /\ PathOf(r.originalUrl) = LoginPath

IsAddToDescription(r) ==
    LET p == PathOf(r.originalUrl)
    IN /\ r.method = "POST"
       /\ Len(p) = 4
       /\ p[1] = "/api" /\ p[2] = "/tasks" /\ p[4] = "/add-to-description"

\* requireAdmin mounted on every path
IsAnyPath(r) == TRUE

IsUsersPath(r) ==
    LET p == PathOf(r.originalUrl)
    IN Len(p) >= 2 /\ p[1] = "/api" /\ p[2] = "/users"

\* a JS value taken as it is, without the || ''
AsIs(v) == v

\* a || '' on a JS value
OrEmpty(v) == IF Truthy(v) THEN v ELSE JStr(<<>>)

\* app.post("/api/auth/login", ...) up to the await of fetch
AuthLogin ==
    /\ pc = "routes"
    /\ IsLogin(req)
    /\ LET formData == << <<"grant_type", <<"password">>>>,
                          <<"username", String(OrEmpty(Get(body, "username")))>>,
                          <<"password", String(OrEmpty(Get(body, "password")))>>,
                          <<"scope", <<>>>>,
                          <<"client_id", <<"string">>>>,
                          <<"client_secret", <<>>>> >>
       IN /\ headers' = << <<"Content-Type", CtForm>>, <<"Accept", CtJson>> >>
          /\ fetches' = Append(fetches, Fetch("POST", <<Host, "/auth", "/login">>, headers',
                                              FormText(ParamsToString(formData))))
    /\ handler' = "login"
    /\ pc' = "wait"
    /\ Storage("login")
    /\ UNCHANGED <<req, body, upResp, res>>
    /\ UNCHANGED log
    /\ UNCHANGED <<raceVars, authVars>>

\* app.post("/api/auth/login", ...) after the await of fetch
AuthLoginThen ==
    /\ pc = "then"
    /\ handler = "login"
    /\ res' = IF upResp.failed
              THEN ResJson(ResStatus(res, 500), ErrorObj("error", "Authentication service error"))
              ELSE IF Ok(upResp)
              THEN IF JsonRejects(upResp)
                   THEN ResJson(ResStatus(res, 500),
                                ErrorObj("error", "Authentication service error"))
                   ELSE ResJson(res, JSONParse(upResp.body))
              ELSE ResJson(ResStatus(res, upResp.status), ErrorObj("error", "Authentication failed"))
    /\ upResp' = IF upResp.failed THEN upResp ELSE [upResp EXCEPT !.used = TRUE]
    /\ pc' = "responded"
    /\ UNCHANGED <<req, body, handler, headers, fetches, users, tasks>>
    /\ UNCHANGED log
    /\ UNCHANGED <<raceVars, authVars>>

TaskUrl(r) == <<Host, "/tasks", PathOf(r.originalUrl)[3]>>

\* the PUT of add-to-description for the task at hand
UpdateFetch(r, hs, t, additionalText, fullTask) ==
    LET currentDescription == OrEmpty(Get(t, "description"))
        newDescription == IF Truthy(currentDescription)
                          THEN JStr(String(currentDescription) \o <<Separator>>
                                    \o String(additionalText))
                          ELSE additionalText
        updateData == IF Truthy(fullTask)
                      THEN JObj(SetProp(t.m, "description", newDescription))
                      ELSE JObj(<< <<"description", newDescription>> >>)
    IN Fetch("PUT", TaskUrl(r), SetProp(hs, "Content-Type", CtJson), JSONStringify(updateData))

\* app.post("/api/tasks/:id/add-to-description", ...) up to its first await
AddToDescription ==
    /\ pc = "routes"
    /\ IsAddToDescription(req)
    /\ LET additionalText == Get(body, "additionalText")
           fullTask == Get(body, "fullTask")
           hs == IF HeaderTruthy(req.headers.authorization)
                 THEN << <<"Accept", CtJson>>, <<"authorization", req.headers.authorization>> >>
                 ELSE << <<"Accept", CtJson>> >>
       IN /\ headers' = hs
          /\ fetches' = IF Truthy(fullTask)
                        THEN Append(fetches, UpdateFetch(req, hs, fullTask, additionalText, fullTask))
                        ELSE Append(fetches, Fetch("GET", TaskUrl(req), hs, NoBody))
    /\ handler' = "addToDescription"
    /\ pc' = "wait"
    /\ Storage("addToDescription")
    /\ UNCHANGED <<req, body, upResp, res>>
    /\ UNCHANGED log
    /\ UNCHANGED <<raceVars, authVars>>

\* add-to-description after the await of the GET
AddToDescriptionAfterGet ==
    /\ pc = "then"
    /\ handler = "addToDescription"
    /\ fetches[Len(fetches)].method = "GET"
    /\ LET failure == ResJson(ResStatus(res, 500),
                              ErrorObj("error", "Add to description service error"))
           taskData == JSONParse(upResp.body)
           t == IF Truthy(Get(taskData, "task")) THEN Get(taskData, "task") ELSE taskData
       IN IF upResp.failed
          THEN res' = failure /\ pc' = "responded" /\ UNCHANGED <<fetches, upResp>>
          ELSE IF ~Ok(upResp)
          THEN /\ res' = ResJson(ResStatus(res, upResp.status),
                                 ErrorObj("error", "Failed to fetch task"))
               /\ pc' = "responded"
               /\ UNCHANGED <<fetches, upResp>>
          ELSE IF JsonRejects(upResp)
          THEN res' = failure /\ pc' = "responded" /\ UNCHANGED <<fetches, upResp>>
          ELSE /\ fetches' = Append(fetches, UpdateFetch(req, headers, t,
                                        Get(body, "additionalText"), Get(body, "fullTask")))
               /\ upResp' = NoResp
               /\ pc' = "wait"
               /\ UNCHANGED res
    /\ UNCHANGED <<req, body, handler, headers, users, tasks>>
    /\ UNCHANGED log
    /\ UNCHANGED <<raceVars, authVars>>

\* add-to-description after the await of the PUT
AddToDescriptionAfterPut ==
    /\ pc = "then"
    /\ handler = "addToDescription"
    /\ fetches[Len(fetches)].method = "PUT"
    /\ res' = IF upResp.failed
              THEN ResJson(ResStatus(res, 500),
                           ErrorObj("error", "Add to description service error"))
              ELSE IF Ok(upResp)
              THEN IF JsonRejects(upResp)
                   THEN ResJson(ResStatus(res, 500),
                                ErrorObj("error", "Add to description service error"))
                   ELSE ResJson(res, JSONParse(upResp.body))
              ELSE ResJson(ResStatus(res, upResp.status),
                           ErrorObj("error", "Failed to update task description"))
    /\ upResp' = IF upResp.failed THEN upResp ELSE [upResp EXCEPT !.used = TRUE]
    /\ pc' = "responded"
    /\ UNCHANGED <<req, body, handler, headers, fetches, users, tasks>>
    /\ UNCHANGED log
    /\ UNCHANGED <<raceVars, authVars>>

\* requireAdmin, mounted on /api/users
RequireAdmin ==
    /\ pc = "routes"
    /\ ~IsLogin(req) /\ ~IsAddToDescription(req)
    /\ IsUsersPath(req)
    /\ LET authHeader == req.headers.authorization
       IN IF ~HeaderTruthy(authHeader) \/ ~StartsWith(authHeader, "Bearer ")
          THEN /\ res' = ResJson(ResStatus(res, 401), ErrorObj("error", "No authorization token"))
               /\ handler' = "requireAdmin"
               /\ pc' = "responded"
          ELSE /\ pc' = "general"
               /\ UNCHANGED <<res, handler>>
    /\ Storage("requireAdmin")
    /\ UNCHANGED <<req, body, headers, fetches, upResp>>
    /\ UNCHANGED log
    /\ UNCHANGED <<raceVars, authVars>>

\* the headers object of the general proxy handler
ProxyHeaders(r) ==
    LET safe == CopySafeHeaders(r)
        withAuth == IF HeaderTruthy(r.headers.authorization)
                    THEN SetProp(safe, "authorization", r.headers.authorization)
                    ELSE safe
    IN IF ~HeaderTruthy(r.headers.contentType) /\ NotGetHead(r)
       THEN SetProp(withAuth, "Content-Type", CtJson)
       ELSE withAuth

\* the branch for multipart and form-encoded requests
IsSpecial(r) ==
    /\ NotGetHead(r)
    /\ \/ OptIncludes(r.headers.contentType, "multipart/form-data")
       \/ OptIncludes(r.headers.contentType, CtForm)

\* the body of the special branch
SpecialBody(b) ==
    IF Truthy(b) /\ b.t \in {"obj", "arr"}
    THEN FormText(ParamsToString(EntriesToParams(b)))
    ELSE PlainText(String(OrEmpty(b)))

\* the body of the regular branch, as fetch sends it
ProxyBody(r, b) ==
    IF NotGetHead(r) /\ Truthy(b)
    THEN IF OptIncludes(r.headers.contentType, CtJson) THEN JSONStringify(b)
         ELSE IF OptIncludes(r.headers.contentType, CtForm)
         THEN FormText(ParamsToString(EntriesToParams(b)))
         ELSE PlainText(String(b))
    ELSE NoBody

\* app.use("/api", ...) of routes.ts up to the fetch
GeneralProxy ==
    /\ \/ pc = "general"
       \/ pc = "routes" /\ ~IsLogin(req) /\ ~IsAddToDescription(req) /\ ~IsUsersPath(req)
    /\ headers' = ProxyHeaders(req)
    /\ IF IsSpecial(req)
       THEN /\ handler' = "special"
            /\ fetches' = Append(fetches, Fetch(req.method, TargetUrl(req), headers',
                                                SpecialBody(body)))
       ELSE /\ handler' = "general"
            /\ fetches' = Append(fetches, Fetch(req.method, TargetUrl(req), headers',
                                                ProxyBody(req, body)))
    /\ pc' = "wait"
    /\ Storage("general")
    /\ UNCHANGED <<req, body, upResp, res>>
    /\ UNCHANGED log
    /\ UNCHANGED <<raceVars, authVars>>

\* the general proxy handler with a catch that answers 502 Bad Gateway
GeneralProxyThenBadGateway ==
    /\ pc = "then"
    /\ handler \in {"general", "special"}
    /\ LET msg == IF handler = "special" THEN "Special request failed" ELSE "External API error"
           failure == ResJson(ResStatus(res, 502), ErrorObj("error", msg))
           mirrored == ResStatus(res, upResp.status)
       IN res' = IF upResp.failed THEN failure
                 ELSE IF IsJsonResponse(upResp)
                 THEN IF JsonRejects(upResp)
                      THEN ResJson(ResStatus(mirrored, 502), ErrorObj("error", msg))
                      ELSE ResJson(mirrored, JSONParse(upResp.body))
                 ELSE ResSend(mirrored, upResp.body)
    /\ upResp' = IF upResp.failed THEN upResp ELSE [upResp EXCEPT !.used = TRUE]
    /\ pc' = "responded"
    /\ UNCHANGED <<req, body, handler, headers, fetches, users, tasks>>
    /\ UNCHANGED log
    /\ UNCHANGED <<raceVars, authVars>>

\* the .then and .catch of the general proxy handler, in either branch
GeneralProxyThen ==
    /\ pc = "then"
    /\ handler \in {"general", "special"}
    /\ LET msg == IF handler = "special" THEN "Special request failed" ELSE "External API error"
           failure == ResJson(ResStatus(res, 500), ErrorObj("error", msg))
           mirrored == ResStatus(res, upResp.status)
       IN res' = IF upResp.failed THEN failure
                 ELSE IF IsJsonResponse(upResp)
                 THEN IF JsonRejects(upResp)
                      THEN ResJson(ResStatus(mirrored, 500), ErrorObj("error", msg))
                      ELSE ResJson(mirrored, JSONParse(upResp.body))
                 ELSE ResSend(mirrored, upResp.body)
    /\ upResp' = IF upResp.failed THEN upResp ELSE [upResp EXCEPT !.used = TRUE]
    /\ pc' = "responded"
    /\ UNCHANGED <<req, body, handler, headers, fetches, users, tasks>>
    /\ UNCHANGED log
    /\ UNCHANGED <<raceVars, authVars>>

-----------------------------------------------------------------------------

Next ==
    \/ \E r \in Requests : Receive(r)
    \/ MultipartMiddleware
    \/ MultipartThen
    \/ BodyParsers
    \/ Logger
    \/ ErrorHandler
    \/ \E r \in Responses : UpstreamAnswer(r)
    \/ UpstreamFail
    \/ Finish
    \/ Close
    \/ AuthLogin
    \/ AuthLoginThen
    \/ AddToDescription
    \/ AddToDescriptionAfterGet
    \/ AddToDescriptionAfterPut
    \/ RequireAdmin
    \/ GeneralProxy
    \/ GeneralProxyThen

\* no add-to-description requests are served side by side
RaceQuiet ==
    /\ upstreamTask = TaskBare
    /\ callPc = [h \in {1, 2} |-> "idle"]
    /\ callBody = [h \in {1, 2} |-> Undefined]
    /\ callTask = [h \in {1, 2} |-> Undefined]
    /\ callStatus = [h \in {1, 2} |-> 0]

AuthCallIds == {1, 2}

\* no call of login or register has been made
NoCall == [kind |-> "none", stage |-> "idle", username |-> "", sent |-> <<>>,
           registered |-> FALSE, error |-> "none", toast |-> "none"]

\* the AuthProvider as useState creates it, over an empty localStorage
AuthQuiet ==
    /\ isAuthenticated = FALSE
    /\ user = JNull
    /\ token = JNull
    /\ loading = TRUE
    /\ localStorage = [auth_token |-> JNull, auth_user |-> NoBody]
    /\ authCalls = [c \in AuthCallIds |-> NoCall]

Init == ServerInit /\ RaceQuiet /\ AuthQuiet

Spec == Init /\ [][Next]_vars

-----------------------------------------------------------------------------
(* Two add-to-description requests for the same task served at once: each   *)
(* await of the handler lets the other request run                          *)

Handlers == {1, 2}

\* the text each request adds
AdditionalText(h) == IF h = 1 THEN JStr(<<"A">>) ELSE JStr(<<"B">>)

\* POST /api/tasks/7/add-to-description
AddRequest ==
    [NoReq EXCEPT !.method = "POST",
                  !.originalUrl = <<"/api", "/tasks", "/7", "/add-to-description">>]

\* the PUT the handler of request h sends
CallPut(h) ==
    UpdateFetch(AddRequest, << <<"Accept", CtJson>> >>, callTask[h],
                Get(callBody[h], "additionalText"), Get(callBody[h], "fullTask"))

RECURSIVE Assign(_, _)
\* the upstream stores the members a PUT carries
Assign(t, m) ==
    IF m = <<>> THEN t
    ELSE Assign(JObj(SetProp(t.m, m[1][1], m[1][2])), Tail(m))

InitRace ==
    /\ ServerInit
    /\ AuthQuiet
    /\ upstreamTask \in {TaskBare, TaskFull}
    /\ callPc = [h \in Handlers |-> "idle"]
    /\ callBody = [h \in Handlers |-> Undefined]
    /\ callTask = [h \in Handlers |-> Undefined]
    /\ callStatus = [h \in Handlers |-> 0]

\* the handler of request h runs up to its first await: with fullTask, the
\* copy of the task the client read, the PUT goes out at once
CallStart(h, withFullTask) ==
    /\ callPc[h] = "idle"
    /\ LET b == IF withFullTask
                THEN JObj(<< <<"additionalText", AdditionalText(h)>>,
                             <<"fullTask", upstreamTask>> >>)
                ELSE JObj(<< <<"additionalText", AdditionalText(h)>> >>)
       IN /\ callBody' = [callBody EXCEPT ![h] = b]
          /\ callTask' = [callTask EXCEPT ![h] = Get(b, "fullTask")]
          /\ callPc' = [callPc EXCEPT ![h] = IF Truthy(Get(b, "fullTask")) THEN "put" ELSE "get"]
    /\ UNCHANGED <<upstreamTask, callStatus>>
    /\ UNCHANGED <<pc, req, body, handler, headers, fetches, upResp, res, users, tasks, log,
                   authVars>>

\* what the upstream answers to GET /tasks/7: the task, bare or wrapped, or 404
TaskResponse(found, wrapped) ==
    IF ~found
    THEN [NoResp EXCEPT !.status = 404, !.ct = MediaType("application/json"),
                        !.body = JsonText(JObj(<<>>))]
    ELSE [NoResp EXCEPT !.status = 200, !.ct = MediaType("application/json"),
                        !.body = JsonText(IF wrapped THEN JObj(<< <<"task", upstreamTask>> >>)
                                          ELSE upstreamTask)]

\* the upstream answers the GET of request h and the handler sends its PUT
CallAfterGet(h, found, wrapped) ==
    /\ callPc[h] = "get"
    /\ found \/ ~wrapped
    /\ LET r == TaskResponse(found, wrapped) IN
       IF ~Ok(r)
       THEN /\ callStatus' = [callStatus EXCEPT ![h] = r.status]
            /\ callPc' = [callPc EXCEPT ![h] = "done"]
            /\ UNCHANGED callTask
       ELSE /\ callTask' = [callTask EXCEPT ![h] =
                               LET taskData == JSONParse(r.body)
                               IN IF Truthy(Get(taskData, "task")) THEN Get(taskData, "task")
                                  ELSE taskData]
            /\ callPc' = [callPc EXCEPT ![h] = "put"]
            /\ UNCHANGED callStatus
    /\ UNCHANGED <<upstreamTask, callBody>>
    /\ UNCHANGED <<pc, req, body, handler, headers, fetches, upResp, res, users, tasks, log,
                   authVars>>

\* the upstream takes the PUT of request h, or refuses it, and the handler answers
CallAfterPut(h, status) ==
    /\ callPc[h] = "put"
    /\ LET r == [NoResp EXCEPT !.status = status]
       IN /\ upstreamTask' = IF Ok(r) THEN Assign(upstreamTask, JSONParse(CallPut(h).body).m)
                                      ELSE upstreamTask
          /\ callStatus' = [callStatus EXCEPT ![h] = IF Ok(r) THEN 200 ELSE status]
    /\ callPc' = [callPc EXCEPT ![h] = "done"]
    /\ UNCHANGED <<callBody, callTask>>
    /\ UNCHANGED <<pc, req, body, handler, headers, fetches, upResp, res, users, tasks, log,
                   authVars>>

NextRace ==
    \/ \E h \in Handlers, withFullTask \in BOOLEAN : CallStart(h, withFullTask)
    \/ \E h \in Handlers, found \in BOOLEAN, wrapped \in BOOLEAN : CallAfterGet(h, found, wrapped)
    \/ \E h \in Handlers, status \in {200, 500} : CallAfterPut(h, status)

SpecRace == InitRace /\ [][NextRace]_vars

-----------------------------------------------------------------------------
(* The AuthProvider of client/src/contexts/AuthContext.tsx in one browser    *)
(* tab; the state updates of one handler are rendered together               *)

Usernames == {"ann", "bob"}

\* the tokens an upstream may issue: header.payload.signature
AccessTokens == {"h.admin.s", "h.empty.s", "h.null.s", "opaque"}

\* what JSON.parse makes of the decoded payload of a token
Payload(tok) ==
    CASE tok = "h.admin.s" -> JObj(<< <<"sub", JStr(<<"7">>)>>, <<"username", JStr(<<"root">>)>>,
                                      <<"role", JStr(<<"admin">>)>> >>)
      [] tok = "h.empty.s" -> JObj(<<>>)
      [] tok = "h.null.s" -> JNull
      [] OTHER -> Undefined

\* parseJWT: {} when the token cannot be split, decoded or parsed
parseJWT(tok) ==
    IF tok.t # "str" \/ tok.s = <<>> THEN JObj(<<>>)
    ELSE IF Payload(tok.s[1]).t = "undef" THEN JObj(<<>>)
    ELSE Payload(tok.s[1])

\* a || b on JS values
Or(a, b) == IF Truthy(a) THEN a ELSE b

\* the bodies of an ok answer to the login request
LoginResponses ==
    { JObj(<< <<"access_token", JStr(<<tok>>)>>, <<"token_type", JStr(<<"bearer">>)>> >>) :
         tok \in AccessTokens }
    \cup { JObj(<< <<"token_type", JStr(<<"bearer">>)>> >>),
           JObj(<< <<"access_token", JNull>> >>) }

\* the useEffect of AuthProvider: restore the session kept in localStorage
Restore ==
    /\ loading
    /\ LET storedToken == localStorage.auth_token
           storedUser == localStorage.auth_user
       IN IF Truthy(storedToken) /\ storedUser.kind # "none"
          THEN IF storedUser.kind = "json" /\ storedUser.ok
               THEN /\ token' = storedToken
                    /\ user' = JSONParse(storedUser)
                    /\ isAuthenticated' = TRUE
                    /\ UNCHANGED localStorage
               ELSE /\ localStorage' = [auth_token |-> JNull, auth_user |-> NoBody]
                    /\ UNCHANGED <<token, user, isAuthenticated>>
          ELSE UNCHANGED <<token, user, isAuthenticated, localStorage>>
    /\ loading' = FALSE
    /\ UNCHANGED authCalls
    /\ UNCHANGED <<pc, req, body, handler, headers, fetches, upResp, res, users, tasks, log,
                   raceVars>>

\* login(username, password) up to the await of authApi.login
LoginCall(c, username) ==
    /\ ~loading
    /\ authCalls[c].stage = "idle"
    /\ authCalls' = [authCalls EXCEPT ![c] = [NoCall EXCEPT !.kind = "login", !.stage = "login",
                                                            !.username = username,
                                                            !.sent = <<"login">>]]
    /\ UNCHANGED <<isAuthenticated, user, token, loading, localStorage>>
    /\ UNCHANGED <<pc, req, body, handler, headers, fetches, upResp, res, users, tasks, log,
                   raceVars>>

\* RegisterForm.onSubmit: register(username, password, role) up to the await
\* of authApi.register
RegisterCall(c, username) ==
    /\ ~loading
    /\ authCalls[c].stage = "idle"
    /\ authCalls' = [authCalls EXCEPT ![c] = [NoCall EXCEPT !.kind = "register",
                                                            !.stage = "register",
                                                            !.username = username,
                                                            !.sent = <<"register">>]]
    /\ UNCHANGED <<isAuthenticated, user, token, loading, localStorage>>
    /\ UNCHANGED <<pc, req, body, handler, headers, fetches, upResp, res, users, tasks, log,
                   raceVars>>

\* the promise of a call settles; onSubmit of RegisterForm shows its toast
Settled(call, stage, error) ==
    [call EXCEPT !.stage = stage, !.error = error,
                 !.toast = IF call.kind # "register" THEN "none"
                           ELSE IF stage = "resolved" THEN "success" ELSE "error"]

\* authApi.register resolved: register goes on to login(username, password)
RegisterOk(c) ==
    /\ authCalls[c].stage = "register"
    /\ authCalls' = [authCalls EXCEPT ![c].stage = "login", ![c].registered = TRUE,
                                      ![c].sent = Append(@, "login")]
    /\ UNCHANGED <<isAuthenticated, user, token, loading, localStorage>>
    /\ UNCHANGED <<pc, req, body, handler, headers, fetches, upResp, res, users, tasks, log,
                   raceVars>>

\* authApi.register rejected and register goes on to login all the same
RegisterFailThenLogin(c) ==
    /\ authCalls[c].stage = "register"
    /\ authCalls' = [authCalls EXCEPT ![c].stage = "login", ![c].sent = Append(@, "login")]
    /\ UNCHANGED <<isAuthenticated, user, token, loading, localStorage>>
    /\ UNCHANGED <<pc, req, body, handler, headers, fetches, upResp, res, users, tasks, log,
                   raceVars>>

\* authApi.register rejected: register rethrows
RegisterFail(c) ==
    /\ authCalls[c].stage = "register"
    /\ authCalls' = [authCalls EXCEPT ![c] = Settled(@, "rejected", "register request")]
    /\ UNCHANGED <<isAuthenticated, user, token, loading, localStorage>>
    /\ UNCHANGED <<pc, req, body, handler, headers, fetches, upResp, res, users, tasks, log,
                   raceVars>>

\* authApi.login resolved with data: the rest of login
LoginOk(c, data) ==
    /\ authCalls[c].stage = "login"
    /\ LET username == JStr(<<authCalls[c].username>>)
           access_token == Get(data, "access_token")
           tokenPayload == parseJWT(access_token)
           userInfo == JObj(<< <<"id", Or(Or(Get(tokenPayload, "sub"), Get(tokenPayload, "id")),
                                         username)>>,
                               <<"username", Or(Get(tokenPayload, "username"), username)>>,
                               <<"role", Or(Get(tokenPayload, "role"), JStr(<<"user">>))>> >>)
       IN IF tokenPayload.t = "null"
          THEN /\ authCalls' = [authCalls EXCEPT ![c] = Settled(@, "rejected", "token payload")]
               /\ UNCHANGED <<isAuthenticated, user, token, localStorage>>
          ELSE /\ localStorage' = [auth_token |-> JStr(String(access_token)),
                                   auth_user |-> JSONStringify(userInfo)]
               /\ token' = access_token
               /\ user' = userInfo
               /\ isAuthenticated' = TRUE
               /\ authCalls' = [authCalls EXCEPT ![c] = Settled(@, "resolved", "none")]
    /\ UNCHANGED loading
    /\ UNCHANGED <<pc, req, body, handler, headers, fetches, upResp, res, users, tasks, log,
                   raceVars>>

\* authApi.login rejected and the catch of login logs the user out
LoginFailLogsOut(c) ==
    /\ authCalls[c].stage = "login"
    /\ authCalls' = [authCalls EXCEPT ![c] = Settled(@, "rejected", "login request")]
    /\ localStorage' = [auth_token |-> JNull, auth_user |-> NoBody]
    /\ token' = JNull
    /\ user' = JNull
    /\ isAuthenticated' = FALSE
    /\ UNCHANGED loading
    /\ UNCHANGED <<pc, req, body, handler, headers, fetches, upResp, res, users, tasks, log,
                   raceVars>>

\* authApi.login rejected: login logs the error and rethrows it
LoginFail(c) ==
    /\ authCalls[c].stage = "login"
    /\ authCalls' = [authCalls EXCEPT ![c] = Settled(@, "rejected", "login request")]
    /\ UNCHANGED <<isAuthenticated, user, token, loading, localStorage>>
    /\ UNCHANGED <<pc, req, body, handler, headers, fetches, upResp, res, users, tasks, log,
                   raceVars>>

\* logout
Logout ==
    /\ ~loading
    /\ localStorage' = [auth_token |-> JNull, auth_user |-> NoBody]
    /\ token' = JNull
    /\ user' = JNull
    /\ isAuthenticated' = FALSE
    /\ UNCHANGED <<loading, authCalls>>
    /\ UNCHANGED <<pc, req, body, handler, headers, fetches, upResp, res, users, tasks, log,
                   raceVars>>

\* the page is loaded again: the provider is created anew, the calls under
\* way are gone, localStorage stays
Reload ==
    /\ ~loading
    /\ isAuthenticated' = FALSE
    /\ user' = JNull
    /\ token' = JNull
    /\ loading' = TRUE
    /\ authCalls' = [c \in AuthCallIds |-> NoCall]
    /\ UNCHANGED localStorage
    /\ UNCHANGED <<pc, req, body, handler, headers, fetches, upResp, res, users, tasks, log,
                   raceVars>>

InitAuth == ServerInit /\ RaceQuiet /\ AuthQuiet

NextAuth ==
    \/ Restore
    \/ \E c \in AuthCallIds, username \in Usernames : LoginCall(c, username)
    \/ \E c \in AuthCallIds, username \in Usernames : RegisterCall(c, username)
    \/ \E c \in AuthCallIds : RegisterOk(c)
    \/ \E c \in AuthCallIds : RegisterFail(c)
    \/ \E c \in AuthCallIds, data \in LoginResponses : LoginOk(c, data)
    \/ \E c \in AuthCallIds : LoginFail(c)
    \/ Logout
    \/ Reload

SpecAuth == InitAuth /\ [][NextAuth]_vars

-----------------------------------------------------------------------------
(* Notions the properties are stated in *)

\* the request went through the general /api handler or the multipart middleware
Proxied == handler \in {"general", "special", "multipart"}

\* the upstream answered the last fetch and the caller has its response
Answered == pc = "responded" /\ fetches # <<>> /\ ~upResp.failed

\* header names are case-insensitive on the wire
Lower(name) ==
    CASE name = "Content-Type" -> "content-type"
      [] name = "Accept" -> "accept"
      [] OTHER -> name

HeaderNames(hs) == { Lower(hs[i][1]) : i \in 1..Len(hs) }

\* the values sent under a name, in the order they were set
HeaderValues(hs, name) ==
    LET sel == SelectSeq(hs, LAMBDA p : Lower(p[1]) = name)
    IN [i \in 1..Len(sel) |-> sel[i][2]]

Whitelist == {"authorization", "content-type", "accept", "user-agent"}

-----------------------------------------------------------------------------
(* C1: status mirroring *)

\* C1: whenever the upstream answers a proxied request, the status returned to
\* the caller equals the upstream status, on the general handler and on the
\* multipart middleware alike.
C1_StatusMirrored ==
    (Answered /\ Proxied) => res.status = upResp.status

-----------------------------------------------------------------------------
(* C2: content type mirroring *)

\* C2: for every proxied request the upstream answers, the media type of the
\* Content-Type returned to the caller is that of the upstream response.
C2_ContentTypeMirrored ==
    (Answered /\ Proxied) => res.ct.media = upResp.ct.media

-----------------------------------------------------------------------------
(* C3: header whitelist *)

\* C3 as claimed: for every /api request every header name sent upstream is
\* whitelisted, and every whitelisted header that arrived is sent with the
\* value it arrived with.
C3_WhitelistAllRequests ==
    \A i \in 1..Len(fetches) :
        /\ HeaderNames(fetches[i].headers) \subseteq Whitelist
        /\ \A k \in Whitelist :
              ReqHeader(req, k) # Absent =>
                  HeaderValues(fetches[i].headers, k) = <<ReqHeader(req, k)>>

\* C3 amended: for every /api request every header name sent upstream is
\* whitelisted (so a cookie is never forwarded); on the general handler and the
\* multipart middleware every whitelisted header that arrived with a non-empty
\* value is sent with exactly that value.
C3_Whitelist ==
    \A i \in 1..Len(fetches) :
        /\ HeaderNames(fetches[i].headers) \subseteq Whitelist
        /\ Proxied =>
              \A k \in Whitelist :
                  HeaderTruthy(ReqHeader(req, k)) =>
                      HeaderValues(fetches[i].headers, k) = <<ReqHeader(req, k)>>

\* a browser request with a cookie and whitelisted headers has been forwarded
C3_Witness ==
    /\ pc = "wait" /\ Proxied /\ Len(fetches) = 1
    /\ req.headers.cookie # Absent
    /\ req.headers.accept # Absent
    /\ HeaderTruthy(req.headers.authorization)
    /\ HeaderTruthy(req.headers.contentType)

-----------------------------------------------------------------------------
(* C4: target URL and method *)

\* the fixed host followed by the original URL without its leading "/api"
ExpectedUrl(r) == <<Host>> \o SubSeq(r.originalUrl, 2, Len(r.originalUrl))

\* C4 as claimed: for every /api request the upstream URL is the fixed host
\* followed by the original URL without its leading "/api", and the method is
\* forwarded unchanged.
C4_UrlAllRequests ==
    \A i \in 1..Len(fetches) :
        /\ fetches[i].url = ExpectedUrl(req)
        /\ fetches[i].method = req.method

\* C4 amended: every upstream URL starts with the fixed host; on the general
\* handler and the multipart middleware the upstream URL is the host followed by
\* the original URL without its leading "/api", query string included, and the
\* method is forwarded unchanged.
C4_Url ==
    \A i \in 1..Len(fetches) :
        /\ Head(fetches[i].url) = Host
        /\ \A j \in 2..Len(fetches[i].url) : fetches[i].url[j] # Host
        /\ Proxied => /\ fetches[i].url = ExpectedUrl(req)
                      /\ fetches[i].method = req.method

\* a request with a query string and a repeated /api segment has been forwarded
C4_Witness ==
    /\ pc = "wait" /\ Proxied /\ Len(fetches) = 1
    /\ req.originalUrl = <<"/api", "/api", "/tasks", "?full=1">>
    /\ fetches[1].url = <<Host, "/api", "/tasks", "?full=1">>

-----------------------------------------------------------------------------
(* C5: request body *)

\* C5: a proxied request that arrived without a body (a GET or HEAD, or a
\* body-less request with no Content-Type) is forwarded with no body, and one
\* that arrived with a JSON body is forwarded with a body that parses to the
\* same JSON value.
C5_BodyFaithful ==
    (Proxied /\ Len(fetches) = 1) =>
        /\ (~NotGetHead(req) \/ (req.raw.kind = "none" /\ req.headers.contentType = Absent))
              => fetches[1].body.kind = "none"
        /\ (NotGetHead(req) /\ req.headers.contentType = CtJson
                /\ req.raw.kind = "json" /\ req.raw.ok)
              => /\ fetches[1].body.kind = "json"
                 /\ JSONParse(fetches[1].body) = JSONParse(req.raw)

-----------------------------------------------------------------------------
(* C6: form-encoded body *)

\* C6: for a proxied non-GET/HEAD request with Content-Type
\* application/x-www-form-urlencoded, the body sent upstream decodes to the
\* same list of key/value pairs as the body received.
C6_FormRoundTrip ==
    (Proxied /\ Len(fetches) = 1 /\ NotGetHead(req)
        /\ req.headers.contentType = CtForm /\ req.raw.kind = "form") =>
        /\ fetches[1].body.kind = "form"
        /\ FormDecode(fetches[1].body.form) = FormDecode(req.raw.form)

-----------------------------------------------------------------------------
(* C7: storage *)

\* C7: no request handler writes the in-memory storage: the user and task maps
\* of MemStorage stay empty whatever requests are served.
C7_StorageUntouched == users = {} /\ tasks = {}

\* add-to-description has run to its end, with both upstream requests
C7_Witness ==
    /\ pc = "responded" /\ handler = "addToDescription" /\ Len(fetches) = 2
    /\ users = {} /\ tasks = {}

-----------------------------------------------------------------------------
(* C8: no retry *)

\* C8: a request handled by the general handler or the multipart middleware
\* has exactly one upstream request, also after the upstream failed or
\* answered with an error status; add-to-description has at most two, a GET
\* then a PUT.
C8_NoRetry ==
    /\ Proxied => Len(fetches) = 1
    /\ handler = "addToDescription" =>
          /\ Len(fetches) \in {1, 2}
          /\ Len(fetches) = 2 => (fetches[1].method = "GET" /\ fetches[2].method = "PUT")
          /\ Len(fetches) = 1 => fetches[1].method \in {"GET", "PUT"}

\* the upstream request of a proxied request failed and the caller was answered
C8_Witness ==
    pc = "responded" /\ Proxied /\ upResp.failed /\ Len(fetches) = 1

-----------------------------------------------------------------------------
(* C9: every request is forwarded *)

HasBearer(r) == r.headers.authorization \in {"Bearer user-token", "Bearer admin-token"}

UnderUsers(r) == Len(r.originalUrl) >= 2 /\ r.originalUrl[2] = "/users"

\* a multipart upload with a method other than GET and HEAD
Upload(r) == r.method \notin {"GET", "HEAD"} /\ r.headers.contentType = CtMultipart

\* a JSON body the body parser rejects
Malformed(r) == r.headers.contentType = CtJson /\ r.raw.kind = "json" /\ ~r.raw.ok

-----------------------------------------------------------------------------
(* C10: admin only *)

\* the caller's token belongs to an administrator
CallerIsAdmin(r) == r.headers.authorization = "Bearer admin-token"

\* C10: a request under /api/users made by a caller who is not an
\* administrator is never forwarded to the upstream service.
C10_AdminOnly ==
    (UnderUsers(req) /\ fetches # <<>>) => CallerIsAdmin(req)

-----------------------------------------------------------------------------
(* C11: /api/users without a bearer token *)

\* C11: a request under /api/users without an Authorization header starting
\* with "Bearer " is never forwarded upstream and is answered with 401,
\* whatever its method and Content-Type, multipart included.
C11_UsersNeedBearer ==
    (UnderUsers(req) /\ ~HasBearer(req)) =>
        /\ fetches = <<>>
        /\ pc = "responded" => res.status = 401

-----------------------------------------------------------------------------
(* C12: upstream failure *)

\* the response is a JSON text with an error member
IsErrorJson(r) ==
    /\ r.ct.media = "application/json"
    /\ r.body.kind = "json" /\ r.body.ok
    /\ \E i \in 1..Len(r.body.json.m) : r.body.json.m[i][1] = "error"

\* C12: when the upstream request of a proxied request has failed, the next
\* step of the handler answers the caller, and the caller then has exactly one
\* response, with status 500 and a JSON body carrying an error member.
C12_FailureAnswered ==
    [][(pc = "then" /\ Proxied /\ upResp.failed) =>
          /\ pc' = "responded"
          /\ res.writes = 0
          /\ res'.writes = 1
          /\ res'.sent
          /\ res'.status = 500
          /\ IsErrorJson(res')]_vars

\* the caller of a proxied request whose upstream request failed has its answer
C12_Witness ==
    /\ pc = "responded" /\ Proxied /\ upResp.failed
    /\ res.writes = 1 /\ res.status = 500 /\ IsErrorJson(res)

-----------------------------------------------------------------------------
(* C13: the request log *)

\* C13: when the response of a request to an /api endpoint has finished, a
\* line has been logged for it, uploads answered by the multipart middleware
\* included, and the line is at most 80 characters long.
C13_LoggedWithin80 ==
    (pc = "finished" /\ PathStartsWith(Chars(PathOf(req.originalUrl)), "/api")) =>
        /\ log # NoLine
        /\ Len(log) <= 80

-----------------------------------------------------------------------------
(* C14: the order of the upstream requests of add-to-description *)

\* the add-to-description handler is at work on a request with / without fullTask
AddingWithFullTask == handler = "addToDescription" /\ Truthy(Get(body, "fullTask"))
AddingWithoutFullTask == handler = "addToDescription" /\ ~Truthy(Get(body, "fullTask"))

Methods_(fs) == [i \in 1..Len(fs) |-> fs[i].method]

\* the upstream requests sent so far are in an order the handler allows
C14_Order ==
    /\ AddingWithoutFullTask => Methods_(fetches) \in {<<"GET">>, <<"GET", "PUT">>}
    /\ AddingWithFullTask => Methods_(fetches) = <<"PUT">>

\* a step of the handler that issues the PUT, or that follows a non-ok GET
C14_Step ==
    /\ (handler' = "addToDescription" /\ Len(fetches') > Len(fetches)
           /\ fetches'[Len(fetches')].method = "PUT" /\ fetches # <<>>) =>
          /\ Methods_(fetches) = <<"GET">>
          /\ pc = "then" /\ ~upResp.failed
          /\ upResp.status \in 200..299
    /\ (AddingWithoutFullTask /\ pc = "then" /\ Methods_(fetches) = <<"GET">>
           /\ ~upResp.failed /\ upResp.status \notin 200..299) =>
          /\ fetches' = fetches
          /\ pc' = "responded"
          /\ res'.status = upResp.status

\* C14: without fullTask the GET of the task is sent first and the PUT only
\* after the GET was answered with an ok status; a non-ok GET ends the request
\* with the GET's status and without a PUT; with fullTask no GET is sent and
\* exactly one PUT is.
C14_GetBeforePut == []C14_Order /\ [][C14_Step]_vars

\* a request without fullTask has been answered after its GET and its PUT
C14_Witness ==
    /\ pc = "responded" /\ AddingWithoutFullTask
    /\ Methods_(fetches) = <<"GET", "PUT">>

-----------------------------------------------------------------------------
(* C15: the body of the PUT of add-to-description *)

\* the members of an object other than description
OtherMembers(v) == SelectSeq(v.m, LAMBDA kv : kv[1] # "description")

\* the text of a description, empty when there is none
DescriptionText(t) ==
    IF Get(t, "description").t = "str" THEN Get(t, "description").s ELSE <<>>

\* the PUT carries the description and the members the claim calls for, given
\* the task it starts from
PutAsClaimed(put, t) ==
    LET sent == JSONParse(put.body)
        additionalText == Get(body, "additionalText")
        expected == IF DescriptionText(t) # <<>>
                    THEN JStr(DescriptionText(t) \o <<Separator>> \o additionalText.s)
                    ELSE additionalText
    IN /\ Get(sent, "description") = expected
       /\ IF Truthy(Get(body, "fullTask"))
          THEN OtherMembers(sent) = OtherMembers(Get(body, "fullTask"))
          ELSE Len(sent.m) = 1 /\ sent.m[1][1] = "description"

\* the task the upstream returned to the GET
FetchedTask ==
    LET taskData == JSONParse(upResp.body)
    IN IF Truthy(Get(taskData, "task")) THEN Get(taskData, "task") ELSE taskData

\* C15: the PUT of add-to-description carries the current description followed
\* by the separator and additionalText, or additionalText alone when the
\* current description is empty or missing; with fullTask every other member
\* of the body is fullTask's, without it description is the only member.
C15_PutBody ==
    [][(handler' = "addToDescription" /\ Len(fetches') > Len(fetches)
           /\ fetches'[Len(fetches')].method = "PUT") =>
          PutAsClaimed(fetches'[Len(fetches')],
                       IF Truthy(Get(body', "fullTask")) THEN Get(body', "fullTask")
                       ELSE FetchedTask)]_vars

-----------------------------------------------------------------------------
(* C17: login *)

\* the POST the login handler is to send for the credentials the caller gave
SentCredential(v) ==
    CASE v.t = "str" -> v.s
      [] v.t = "arr" -> Join(v.a, ",")
      [] OTHER -> <<>>

FormValue(pairs, key) ==
    LET at == {i \in 1..Len(pairs) : pairs[i][1] = key}
    IN IF at = {} THEN <<"<none>">> ELSE pairs[CHOOSE i \in at : \A j \in at : i <= j][2]

LoginSent ==
    /\ Len(fetches) = 1
    /\ fetches[1].method = "POST"
    /\ fetches[1].url = <<Host, "/auth", "/login">>
    /\ \E i \in 1..Len(fetches[1].headers) : fetches[1].headers[i] = <<"Content-Type", CtForm>>
    /\ fetches[1].body.kind = "form"
    /\ LET sent == FormDecode(fetches[1].body.form)
       IN /\ FormValue(sent, "grant_type") = <<"password">>
          /\ FormValue(sent, "username") = SentCredential(Get(body, "username"))
          /\ FormValue(sent, "password") = SentCredential(Get(body, "password"))

\* the answer of the login handler to what the upstream did
LoginAnswered ==
    LET parsable == upResp.body.kind = "json" /\ upResp.body.ok
    IN /\ upResp.failed => res.status = 500
       /\ (~upResp.failed /\ upResp.status \in 200..299 /\ parsable) =>
             /\ res.status = 200
             /\ res.ct.media = "application/json"
             /\ res.body = JsonText(upResp.body.json)
       /\ (~upResp.failed /\ upResp.status \in 200..299 /\ ~parsable) => res.status = 500
       /\ (~upResp.failed /\ upResp.status \notin 200..299) =>
             /\ res.status = upResp.status
             /\ res.body = JsonText(JObj(<< <<"error", JStr(<<"Authentication failed">>)>> >>))

-----------------------------------------------------------------------------
(* C16: concurrent additions *)

\* the description the upstream stores holds the text
InDescription(text) ==
    LET d == DescriptionText(upstreamTask)
    IN \E i \in 1..Len(d) : d[i] = text

\* C16: when two add-to-description requests for the same task, adding A and
\* B, have both been answered with success, the description the upstream
\* stores holds both A and B.
C16_NoLostAddition ==
    (callStatus[1] = 200 /\ callStatus[2] = 200) =>
        (InDescription("A") /\ InDescription("B"))

-----------------------------------------------------------------------------
(* C18: the AuthProvider's fields agree *)

\* a value other than null and undefined
NonNull(v) == v.t \notin {"null", "undef"}

\* C18: isAuthenticated is true exactly when token is non-null and exactly
\* when user is non-null, and when it is true localStorage holds auth_token
\* equal to the token of the context.
C18_FieldsAgree ==
    /\ isAuthenticated <=> NonNull(token)
    /\ isAuthenticated <=> NonNull(user)
    /\ isAuthenticated => localStorage.auth_token = token

-----------------------------------------------------------------------------
(* C19: a failed login *)

\* the state the AuthProvider shares and keeps
AuthState == <<token, user, isAuthenticated, localStorage>>

\* C19: the step in which authApi.login rejects leaves token, user,
\* isAuthenticated and both localStorage keys as they were, and the promise of
\* the call rejects.
C19_FailedLoginChangesNothing ==
    [][\A c \in AuthCallIds :
          (authCalls[c].stage = "login" /\ authCalls'[c].error = "login request") =>
              /\ authCalls'[c].stage = "rejected"
              /\ AuthState' = AuthState]_vars

\* a login was rejected and the user of the other, successful login is still
\* logged in
C19_Witness ==
    /\ authCalls[1].kind = "login" /\ authCalls[1].stage = "resolved"
    /\ authCalls[2].kind = "login" /\ authCalls[2].stage = "rejected"
    /\ authCalls[2].error = "login request"
    /\ isAuthenticated /\ token = JStr(<<"h.admin.s">>)
    /\ localStorage.auth_token = JStr(<<"h.admin.s">>)

-----------------------------------------------------------------------------
(* C20: register, then login *)

\* the requests a register call has sent are in order, and the login request
\* is there only if the register request succeeded
C20_Order ==
    \A c \in AuthCallIds :
        authCalls[c].kind = "register" =>
            /\ authCalls[c].sent \in {<<"register">>, <<"register", "login">>}
            /\ Len(authCalls[c].sent) = 2 => authCalls[c].registered
            /\ authCalls[c].error = "register request" =>
                  /\ authCalls[c].sent = <<"register">>
                  /\ authCalls[c].stage = "rejected"

\* a failing step of a register call: it rejects and leaves the auth state alone
C20_Step ==
    \A c \in AuthCallIds :
        (authCalls[c].kind = "register" /\ authCalls[c].stage \in {"register", "login"}
            /\ authCalls'[c].error \in {"register request", "login request"}) =>
              /\ authCalls'[c].stage = "rejected"
              /\ authCalls'[c].toast = "error"
              /\ AuthState' = AuthState
              /\ ~isAuthenticated => ~isAuthenticated'

\* C20: register sends the login request only after the register request
\* succeeded; a failed register request sends no login request and leaves the
\* auth state unchanged; a failed login after a successful registration makes
\* register reject and leaves the user unauthenticated.
C20_RegisterThenLogin == []C20_Order /\ [][C20_Step]_vars

\* registration succeeded, the login that followed failed, nobody is logged in
C20_Witness ==
    \E c \in AuthCallIds :
        /\ authCalls[c].kind = "register" /\ authCalls[c].registered
        /\ authCalls[c].sent = <<"register", "login">>
        /\ authCalls[c].stage = "rejected" /\ authCalls[c].error = "login request"
        /\ ~isAuthenticated /\ localStorage.auth_token = JNull

====
